---- MODULE Spec2Model ----
(***************************************************************************)
(* WechatNotice: the token-cached WeChat Work client                       *)
(* (source/wechat/client.py), the POST /send gateway handler               *)
(* (source/api/routes.py) and the request_logs table                       *)
(* (source/database/db_manager.py).                                        *)
(*                                                                         *)
(* Five specifications share the definitions below:                        *)
(*   SpecClient      one long-lived WechatWorkClient on which              *)
(*                   get_access_token and the four send operations are     *)
(*                   called while the clock advances;                      *)
(*   Spec            POST /send handlers, each with its own client,        *)
(*                   writing to the shared request_logs;                   *)
(*   SpecStore       the DatabaseManager's inserts, queries, statistics    *)
(*                   and pruning over a clock that advances by days;       *)
(*   SpecConcurrent  POST /send handlers of two tenants running at once;   *)
(*   SpecConnections threads running the DatabaseManager's operations      *)
(*                   statement by statement, each on its own connection.   *)
(*                                                                         *)
(* Python values are records [t, s, n]: t the type, s the characters of a  *)
(* str (or the items of a list), n the value of an int.  The Chinese       *)
(* string literals of the source are written in English.                   *)
(***************************************************************************)
EXTENDS Integers, Sequences, FiniteSets, TLC

VARIABLES
    now,            \* time.time(), in seconds
    client,         \* the long-lived WechatWorkClient of SpecClient
    call,           \* the last call made on that client, and what it did
    req,            \* the POST /send handlers: position, locals, response
    request_logs,   \* the rows of request_logs, in insertion order
    lastRowId,      \* AUTOINCREMENT's sqlite_sequence of request_logs
    dbcall,         \* the last call made on the DatabaseManager, and its result
    conn            \* per thread: its DatabaseManager operation and connection

vars == <<now, client, call, req, request_logs, lastRowId, dbcall, conn>>

---------------------------------------------------------------------------
(* Bounds of the model *)

MaxNow == 4

MaxLatency == 1

NumReqs == 1

NumHandlers == 2

MaxArticles == 10

MaxInserts == 2

MaxWriteLatency == 1

NumThreads == 2

(* Constants of the program *)

ExpiryMargin == 300

DefaultExpiresIn == 7200

MaxNewsArticles == 8

ExcerptLen == 500

PreviewLen == 50

---------------------------------------------------------------------------
(* Python values *)

PyNone == [t |-> "none", s |-> <<>>, n |-> 0]

PyStr(chars) == [t |-> "str", s |-> chars, n |-> 0]

PyInt(k) == [t |-> "int", s |-> <<>>, n |-> k]

PyList(items) == [t |-> "list", s |-> items, n |-> 0]

\* bool(v), as `if v` and `not v` use it
Truthy(v) ==
    CASE v.t = "none" -> FALSE
      [] v.t = "str"  -> Len(v.s) > 0
      [] v.t = "list" -> Len(v.s) > 0
      [] v.t = "int"  -> v.n # 0
      [] OTHER        -> TRUE

\* str(v) inside an f-string
Format(v) ==
    CASE v.t = "none" -> <<"None">>
      [] v.t = "str"  -> v.s
      [] v.t = "int"  -> <<"<int>">>
      [] OTHER        -> <<"<repr>">>

\* f"{prefix}{v}"
FString(prefix, v) == PyStr(<<prefix>> \o Format(v))

Min(a, b) == IF a <= b THEN a ELSE b

\* v[:k] of a str or a list
Slice(v, k) == [v EXCEPT !.s = SubSeq(v.s, 1, Min(Len(v.s), k))]

\* v[:k] raises TypeError unless v is a str or a list
Sliceable(v) == v.t \in {"str", "list"}

---------------------------------------------------------------------------
(* Exceptions *)

NoExc == [cls |-> "none", msg |-> PyNone]

Exc(cls, msg) == [cls |-> cls, msg |-> msg]

---------------------------------------------------------------------------
(* The upstream's replies.  kind: "json" a parsed JSON object; "transport" *)
(* requests raised a RequestException (timeout, DNS, reset); "garbled_req" *)
(* and "garbled_val" a body that is not JSON, where response.json() raises *)
(* requests.JSONDecodeError (a RequestException) or a plain ValueError,    *)
(* whichever the installed requests does.  A field the reply lacks is      *)
(* PyNone (errcode, errmsg) or <<>> (expires_in, invaliduser).             *)

Tokens == {PyStr(<<"tok1">>), PyStr(<<"tok2">>)}

Reply(kind, errcode, errmsg, token, expires, invalid) ==
    [kind |-> kind, errcode |-> errcode, errmsg |-> errmsg,
     access_token |-> token, expires_in |-> expires, invaliduser |-> invalid]

NoReply == Reply("none", PyNone, PyNone, PyNone, <<>>, <<>>)

FailureReplies ==
    { Reply("json", PyInt(40013), PyStr(<<"invalid corpid">>), PyNone, <<>>, <<>>),
      Reply("json", PyInt(45009), PyNone, PyNone, <<>>, <<>>),
      Reply("json", PyNone, PyNone, PyNone, <<>>, <<>>),
      Reply("transport", PyNone, PyStr(<<"timed out">>), PyNone, <<>>, <<>>),
      Reply("garbled_req", PyNone, PyStr(<<"Expecting value">>), PyNone, <<>>, <<>>),
      Reply("garbled_val", PyNone, PyStr(<<"Expecting value">>), PyNone, <<>>, <<>>) }

ExpiresIns == { <<>>, <<ExpiryMargin>>, <<ExpiryMargin + 2>> }

TokenReplies ==
    { Reply("json", PyInt(0), PyStr(<<"ok">>), tk, e, <<>>) :
        tk \in Tokens, e \in ExpiresIns } \cup FailureReplies

SendReplies ==
    { Reply("json", PyInt(0), PyStr(<<"ok">>), PyNone, <<>>, inv) :
        inv \in { <<>>, <<PyStr(<<"u9">>)>> } } \cup FailureReplies

---------------------------------------------------------------------------
(* class WechatWorkClient *)

\* __init__
WechatWorkClient(corpid, corpsecret, agentid) ==
    [corpid |-> corpid, corpsecret |-> corpsecret, agentid |-> agentid,
     access_token |-> PyNone, token_expires_at |-> 0]

\* CacheValid, were the comparison with the expiry inclusive
CacheValidInclusive(c, t) == Truthy(c.access_token) /\ t <= c.token_expires_at

\* get_access_token's first test: the cached token is still good at time t
CacheValid(c, t) == Truthy(c.access_token) /\ t < c.token_expires_at

\* result.get("expires_in", 7200)
ExpiresInOf(reply) ==
    IF reply.expires_in = <<>> THEN DefaultExpiresIn ELSE reply.expires_in[1]

\* Refresh, were a failed refresh to fall back on the token already cached
RefreshKeepingStale(c, t2, reply) ==
    IF reply.kind = "json" /\ reply.errcode = PyInt(0)
    THEN [client |-> [c EXCEPT !.access_token = reply.access_token,
                               !.token_expires_at = t2 + ExpiresInOf(reply) - ExpiryMargin],
          raised |-> FALSE, value |-> reply.access_token, exc |-> NoExc]
    ELSE [client |-> c, raised |-> FALSE, value |-> c.access_token, exc |-> NoExc]

\* Refresh, were the cache emptied when the refresh fails
RefreshClearingOnFailure(c, t2, reply) ==
    CASE reply.kind = "json" /\ reply.errcode = PyInt(0) ->
            [client |-> [c EXCEPT !.access_token = reply.access_token,
                                  !.token_expires_at = t2 + ExpiresInOf(reply) - ExpiryMargin],
             raised |-> FALSE, value |-> reply.access_token, exc |-> NoExc]
      [] reply.kind = "json" /\ reply.errcode # PyInt(0) ->
            [client |-> [c EXCEPT !.access_token = PyNone, !.token_expires_at = 0],
             raised |-> TRUE, value |-> PyNone,
             exc |-> Exc("Exception", FString("get access_token failed: ", reply.errmsg))]
      [] reply.kind \in {"transport", "garbled_req"} ->
            [client |-> [c EXCEPT !.access_token = PyNone, !.token_expires_at = 0],
             raised |-> TRUE, value |-> PyNone,
             exc |-> Exc("Exception", FString("access_token request error: ", reply.errmsg))]
      [] OTHER ->
            [client |-> [c EXCEPT !.access_token = PyNone, !.token_expires_at = 0],
             raised |-> TRUE, value |-> PyNone,
             exc |-> Exc("ValueError", reply.errmsg)]

\* Refresh, were the token cached for its whole upstream lifetime
RefreshNoMargin(c, t2, reply) ==
    CASE reply.kind = "json" /\ reply.errcode = PyInt(0) ->
            [client |-> [c EXCEPT !.access_token = reply.access_token,
                                  !.token_expires_at = t2 + ExpiresInOf(reply)],
             raised |-> FALSE, value |-> reply.access_token, exc |-> NoExc]
      [] reply.kind = "json" /\ reply.errcode # PyInt(0) ->
            [client |-> c, raised |-> TRUE, value |-> PyNone,
             exc |-> Exc("Exception", FString("get access_token failed: ", reply.errmsg))]
      [] reply.kind \in {"transport", "garbled_req"} ->
            [client |-> c, raised |-> TRUE, value |-> PyNone,
             exc |-> Exc("Exception", FString("access_token request error: ", reply.errmsg))]
      [] OTHER ->
            [client |-> c, raised |-> TRUE, value |-> PyNone,
             exc |-> Exc("ValueError", reply.errmsg)]

\* what get_access_token does with the reply of GET gettoken, read at t2
Refresh(c, t2, reply) ==
    CASE reply.kind = "json" /\ reply.errcode = PyInt(0) ->
            [client |-> [c EXCEPT !.access_token = reply.access_token,
                                  !.token_expires_at = t2 + ExpiresInOf(reply) - ExpiryMargin],
             raised |-> FALSE, value |-> reply.access_token, exc |-> NoExc]
      [] reply.kind = "json" /\ reply.errcode # PyInt(0) ->
            [client |-> c, raised |-> TRUE, value |-> PyNone,
             exc |-> Exc("Exception", FString("get access_token failed: ", reply.errmsg))]
      [] reply.kind \in {"transport", "garbled_req"} ->
            [client |-> c, raised |-> TRUE, value |-> PyNone,
             exc |-> Exc("Exception", FString("access_token request error: ", reply.errmsg))]
      [] OTHER ->
            [client |-> c, raised |-> TRUE, value |-> PyNone,
             exc |-> Exc("ValueError", reply.errmsg)]

\* get_access_token called at t1; a reply, when one is asked for, is read at t2
get_access_token(c, t1, t2, reply) ==
    IF CacheValid(c, t1)
    THEN [client |-> c, requested |-> FALSE, raised |-> FALSE,
          value |-> c.access_token, exc |-> NoExc]
    ELSE LET r == Refresh(c, t2, reply)
         IN  [client |-> r.client, requested |-> TRUE, raised |-> r.raised,
              value |-> r.value, exc |-> r.exc]

---------------------------------------------------------------------------
(* The send operations.  A result dict is a record whose `keys` are the    *)
(* keys the dict holds; a field outside `keys` is PyNone.                  *)

Result(keys, success, message, invaliduser, errcode, errmsg, error) ==
    [keys |-> keys, success |-> success, message |-> message,
     invaliduser |-> invaliduser, invalidparty |-> PyNone, invalidtag |-> PyNone,
     errcode |-> errcode, errmsg |-> errmsg, error |-> error]

NoResult == Result({}, FALSE, PyNone, PyNone, PyNone, PyNone, PyNone)

SuccessKeys == {"success", "message", "invaliduser", "invalidparty", "invalidtag"}

\* result.get("invaliduser", "")
InvalidUserOf(reply) ==
    IF reply.invaliduser = <<>> THEN PyStr(<<>>) ELSE reply.invaliduser[1]

\* the dict returned for errcode == 0; invalidparty and invalidtag default to ""
SuccessResult(reply) ==
    [Result(SuccessKeys, TRUE, PyStr(<<"message sent">>), InvalidUserOf(reply),
            PyNone, PyNone, PyNone)
        EXCEPT !.invalidparty = PyStr(<<>>), !.invalidtag = PyStr(<<>>)]

\* the dict returned for any other errcode
UpstreamErrorResult(reply) ==
    Result({"success", "errcode", "errmsg"}, FALSE, PyNone, PyNone,
           reply.errcode, reply.errmsg, PyNone)

\* the dict returned for a requests.RequestException
TransportErrorResult(reply) ==
    Result({"success", "error"}, FALSE, PyNone, PyNone, PyNone, PyNone,
           FString("send message error: ", reply.errmsg))

Returned(result) == [raised |-> FALSE, exc |-> NoExc, result |-> result]

Raised(exc) == [raised |-> TRUE, exc |-> exc, result |-> NoResult]

\* send_text_message, from requests.post to its return
ClassifyText(reply) ==
    CASE reply.kind = "json" /\ reply.errcode = PyInt(0) -> Returned(SuccessResult(reply))
      [] reply.kind = "json" /\ reply.errcode # PyInt(0) -> Returned(UpstreamErrorResult(reply))
      [] reply.kind \in {"transport", "garbled_req"}     -> Returned(TransportErrorResult(reply))
      [] OTHER -> Raised(Exc("ValueError", reply.errmsg))

\* send_markdown_message, from requests.post to its return
ClassifyMarkdown(reply) ==
    CASE reply.kind = "json" /\ reply.errcode = PyInt(0) -> Returned(SuccessResult(reply))
      [] reply.kind = "json" /\ reply.errcode # PyInt(0) -> Returned(UpstreamErrorResult(reply))
      [] reply.kind \in {"transport", "garbled_req"}     -> Returned(TransportErrorResult(reply))
      [] OTHER -> Raised(Exc("ValueError", reply.errmsg))

\* send_textcard_message, from requests.post to its return
ClassifyTextcard(reply) ==
    CASE reply.kind = "json" /\ reply.errcode = PyInt(0) -> Returned(SuccessResult(reply))
      [] reply.kind = "json" /\ reply.errcode # PyInt(0) -> Returned(UpstreamErrorResult(reply))
      [] reply.kind \in {"transport", "garbled_req"}     -> Returned(TransportErrorResult(reply))
      [] OTHER -> Raised(Exc("ValueError", reply.errmsg))

\* ClassifyNews, were an absent errcode read as 0
ClassifyNewsDefaultZero(reply) ==
    CASE reply.kind = "json" /\ reply.errcode \in {PyInt(0), PyNone} -> Returned(SuccessResult(reply))
      [] reply.kind = "json" /\ reply.errcode \notin {PyInt(0), PyNone} -> Returned(UpstreamErrorResult(reply))
      [] reply.kind \in {"transport", "garbled_req"}     -> Returned(TransportErrorResult(reply))
      [] OTHER -> Raised(Exc("ValueError", reply.errmsg))

\* send_news_message, from requests.post to its return
ClassifyNews(reply) ==
    CASE reply.kind = "json" /\ reply.errcode = PyInt(0) -> Returned(SuccessResult(reply))
      [] reply.kind = "json" /\ reply.errcode # PyInt(0) -> Returned(UpstreamErrorResult(reply))
      [] reply.kind \in {"transport", "garbled_req"}     -> Returned(TransportErrorResult(reply))
      [] OTHER -> Raised(Exc("ValueError", reply.errmsg))

(* The JSON body of POST message/send.  `keys` are the top-level keys of   *)
(* the dict; content is the text or markdown content, card the textcard's  *)
(* <<title, description, url, btntxt>>, articles the news articles.        *)

Payload(msgtype, keys, c, args, content, card, articles) ==
    [msgtype |-> msgtype,
     keys |-> keys \cup (IF Truthy(args.toparty) THEN {"toparty"} ELSE {})
                   \cup (IF Truthy(args.totag) THEN {"totag"} ELSE {}),
     touser |-> args.touser, toparty |-> args.toparty, totag |-> args.totag,
     agentid |-> c.agentid, content |-> content, card |-> card, articles |-> articles]

NoArgs ==
    [touser |-> PyNone, toparty |-> PyNone, totag |-> PyNone,
     content |-> PyNone, card |-> <<>>, articles |-> <<>>]

NoPayload == Payload("none", {}, WechatWorkClient(PyNone, PyNone, PyNone), NoArgs, PyNone, <<>>, <<>>)

CommonKeys == {"touser", "msgtype", "agentid", "enable_duplicate_check", "duplicate_check_interval"}

TextPayload(c, args) ==
    Payload("text", CommonKeys \cup {"text", "safe", "enable_id_trans"},
            c, args, args.content, <<>>, <<>>)

MarkdownPayload(c, args) ==
    Payload("markdown", CommonKeys \cup {"markdown", "safe"},
            c, args, args.content, <<>>, <<>>)

TextcardPayload(c, args) ==
    Payload("textcard", CommonKeys \cup {"textcard"}, c, args, PyNone, args.card, <<>>)

\* NewsPayload, were the whole list sent
NewsPayloadUncapped(c, args) ==
    Payload("news", CommonKeys \cup {"news"}, c, args, PyNone, <<>>, args.articles)

\* articles[:8]
NewsPayload(c, args) ==
    Payload("news", CommonKeys \cup {"news"}, c, args, PyNone, <<>>,
            SubSeq(args.articles, 1, Min(Len(args.articles), MaxNewsArticles)))

(* One whole send operation on client c: what it asked of the upstream,    *)
(* what it sent and what it returned or raised.                            *)

\* the upstream requests: GET gettoken?corpid=&corpsecret= and
\* POST message/send?access_token= with the payload as its JSON body
TokenRequest(c) ==
    [endpoint |-> "gettoken", corpid |-> c.corpid, corpsecret |-> c.corpsecret,
     access_token |-> PyNone, payload |-> NoPayload]

PostRequest(token, payload) ==
    [endpoint |-> "message/send", corpid |-> PyNone, corpsecret |-> PyNone,
     access_token |-> token, payload |-> payload]

\* `wire`: the upstream requests the operation issued, in order
Outcome(g, posted, payload, p) ==
    [client |-> g.client,
     wire |-> (IF g.requested THEN <<TokenRequest(g.client)>> ELSE <<>>)
              \o (IF posted THEN <<PostRequest(g.value, payload)>> ELSE <<>>),
     raised |-> p.raised, exc |-> p.exc, result |-> p.result]

\* send_text_message, were a failed POST sent a second time
send_text_message_retrying(c, args, t1, t2, treply, preply) ==
    LET g == get_access_token(c, t1, t2, treply)
        o == Outcome(g, TRUE, TextPayload(g.client, args), ClassifyText(preply))
    IN  IF g.raised THEN Outcome(g, FALSE, NoPayload, Raised(g.exc))
        ELSE IF o.raised \/ ~o.result.success
             THEN [o EXCEPT !.wire = @ \o <<PostRequest(g.value, TextPayload(g.client, args))>>]
             ELSE o

send_text_message(c, args, t1, t2, treply, preply) ==
    LET g == get_access_token(c, t1, t2, treply)
    IN  IF g.raised THEN Outcome(g, FALSE, NoPayload, Raised(g.exc))
        ELSE Outcome(g, TRUE, TextPayload(g.client, args), ClassifyText(preply))

send_markdown_message(c, args, t1, t2, treply, preply) ==
    LET g == get_access_token(c, t1, t2, treply)
    IN  IF g.raised THEN Outcome(g, FALSE, NoPayload, Raised(g.exc))
        ELSE Outcome(g, TRUE, MarkdownPayload(g.client, args), ClassifyMarkdown(preply))

send_textcard_message(c, args, t1, t2, treply, preply) ==
    LET g == get_access_token(c, t1, t2, treply)
    IN  IF g.raised THEN Outcome(g, FALSE, NoPayload, Raised(g.exc))
        ELSE Outcome(g, TRUE, TextcardPayload(g.client, args), ClassifyTextcard(preply))

send_news_message(c, args, t1, t2, treply, preply) ==
    LET g == get_access_token(c, t1, t2, treply)
    IN  IF g.raised THEN Outcome(g, FALSE, NoPayload, Raised(g.exc))
        ELSE Outcome(g, TRUE, NewsPayload(g.client, args), ClassifyNews(preply))

---------------------------------------------------------------------------
(* SpecClient: calls on one long-lived client.                             *)

Reqs == 1..NumReqs

CorpA == PyStr(<<"wwA">>)

SecretA == PyStr(<<"secA">>)

CorpB == PyStr(<<"wwB">>)

SecretB == PyStr(<<"secB">>)

AtAll == PyStr(<<"@", "a", "l", "l">>)

Hi == PyStr(<<"h", "i">>)

Articles(n) == [i \in 1..n |-> i]

Recipients ==
    { [NoArgs EXCEPT !.touser = AtAll],
      [NoArgs EXCEPT !.touser = PyStr(<<"u", "1">>), !.toparty = PyStr(<<"2">>)] }

ContentArgs == { [a EXCEPT !.content = Hi] : a \in Recipients }

CardArgs ==
    { [a EXCEPT !.card = <<PyStr(<<"title">>), PyStr(<<"desc">>),
                           PyStr(<<"http://x">>), PyStr(<<"more">>)>>] : a \in Recipients }

NewsArgs ==
    { [NoArgs EXCEPT !.touser = AtAll, !.articles = Articles(n)] :
        n \in {1, MaxNewsArticles, MaxNewsArticles + 1, MaxArticles} }

\* the record kept of a call: the cache and the clock before it, what it
\* consumed, and its outcome
CallRecord(op, args, pre, t, o, value, treply, preply) ==
    [op |-> op, args |-> args, pre |-> pre, t |-> t,
     wire |-> o.wire, treply |-> treply, preply |-> preply,
     raised |-> o.raised, exc |-> o.exc, value |-> value, result |-> o.result]

NoCall ==
    [op |-> "none", args |-> NoArgs, pre |-> WechatWorkClient(PyNone, PyNone, PyNone), t |-> 0,
     wire |-> <<>>, treply |-> NoReply, preply |-> NoReply,
     raised |-> FALSE, exc |-> NoExc, value |-> PyNone, result |-> NoResult]

\* the caller is between two calls
Idle == call.op = "none"

\* the replies a call at time `now` can consume: none when the cache serves it
TokenInputs == IF CacheValid(client, now) THEN {NoReply} ELSE TokenReplies

Latencies == IF CacheValid(client, now) THEN {0} ELSE 0..MaxLatency

\* the replies to POST message/send: none when no token was returned
SendInputs(treply) ==
    IF get_access_token(client, now, now, treply).raised THEN {NoReply} ELSE SendReplies

Tick ==
    /\ Idle
    /\ now < MaxNow
    /\ now' = now + 1
    /\ UNCHANGED <<client, call, req, request_logs, lastRowId, dbcall, conn>>

CallGetAccessToken ==
    \E treply \in TokenInputs, d \in Latencies :
        LET g == get_access_token(client, now, now + d, treply)
            o == Outcome(g, FALSE, NoPayload, [raised |-> g.raised, exc |-> g.exc, result |-> NoResult])
        IN  /\ Idle
            /\ now + d <= MaxNow
            /\ now' = now + d
            /\ client' = g.client
            /\ call' = CallRecord("get_access_token", NoArgs, client, now, o, g.value, treply, NoReply)
            /\ UNCHANGED <<req, request_logs, lastRowId, dbcall, conn>>

AfterSend(op, args, o, d, treply, preply) ==
    /\ Idle
    /\ now + d <= MaxNow
    /\ now' = now + d
    /\ client' = o.client
    /\ call' = CallRecord(op, args, client, now, o, PyNone, treply, preply)
    /\ UNCHANGED <<req, request_logs, lastRowId, dbcall, conn>>

CallSendText ==
    \E args \in ContentArgs, treply \in TokenInputs, d \in Latencies : \E preply \in SendInputs(treply) :
        AfterSend("send_text_message", args,
                  send_text_message(client, args, now, now + d, treply, preply), d, treply, preply)

CallSendMarkdown ==
    \E args \in ContentArgs, treply \in TokenInputs, d \in Latencies : \E preply \in SendInputs(treply) :
        AfterSend("send_markdown_message", args,
                  send_markdown_message(client, args, now, now + d, treply, preply), d, treply, preply)

CallSendTextcard ==
    \E args \in CardArgs, treply \in TokenInputs, d \in Latencies : \E preply \in SendInputs(treply) :
        AfterSend("send_textcard_message", args,
                  send_textcard_message(client, args, now, now + d, treply, preply), d, treply, preply)

CallSendNews ==
    \E args \in NewsArgs, treply \in TokenInputs, d \in Latencies : \E preply \in SendInputs(treply) :
        AfterSend("send_news_message", args,
                  send_news_message(client, args, now, now + d, treply, preply), d, treply, preply)

\* the caller takes the value returned, or the exception raised
TakeResult ==
    /\ ~Idle
    /\ call' = NoCall
    /\ UNCHANGED <<now, client, req, request_logs, lastRowId, dbcall, conn>>

---------------------------------------------------------------------------
(* request_logs.  A row carries the columns the handler fills from its     *)
(* locals; `handler` names the handler that wrote it (not a column).  The  *)
(* caller's client_ip and user_agent and the measured response_time are    *)
(* passed through to their columns and take part in no decision; they are  *)
(* left out.                                                               *)

\* timedelta(days=1), in seconds
Day == 86400

\* datetime.strftime('%Y-%m-%d %H:%M:%S') of the clock reading t: the date,
\* then the time of day, both of fixed width
Strftime(t) == <<t \div Day, t % Day>>

\* sqlite's comparison of two TEXT values, from the left
TextLess(a, b) == a[1] < b[1] \/ (a[1] = b[1] /\ a[2] < b[2])

Row(id, t, handler, v) ==
    [id |-> id, timestamp |-> Strftime(t), created_at |-> Strftime(t),
     method |-> "POST", path |-> "/send",
     corp_id |-> v.corp_id, agent_id |-> v.agent_id, touser |-> v.touser,
     message |-> v.message, status_code |-> v.status_code, success |-> v.success,
     error_message |-> v.error_message, handler |-> handler]

\* sqlite3 binds None, int and str parameters; a list or dict parameter makes
\* cursor.execute raise
Bindable(v) == v.t \in {"none", "str", "int"}

AllBindable(v) ==
    /\ Bindable(v.corp_id) /\ Bindable(v.agent_id) /\ Bindable(v.touser)
    /\ Bindable(v.message) /\ Bindable(v.error_message)

\* insert_request_log under get_connection: commit on normal exit; on an
\* exception rollback, close and re-raise.  storageOk: the database accepts
\* the write (it is not locked, full or unreachable).
insert_request_log(tbl, last, t, handler, v, storageOk) ==
    IF ~AllBindable(v)
    THEN [request_logs |-> tbl, lastRowId |-> last, raised |-> TRUE,
          exc |-> Exc("sqlite3.ProgrammingError", PyStr(<<"Error binding parameter">>))]
    ELSE IF ~storageOk
    THEN [request_logs |-> tbl, lastRowId |-> last, raised |-> TRUE,
          exc |-> Exc("sqlite3.OperationalError", PyStr(<<"database is locked">>))]
    ELSE [request_logs |-> Append(tbl, Row(last + 1, t, handler, v)), lastRowId |-> last + 1,
          raised |-> FALSE, exc |-> NoExc]

\* (datetime.now() - timedelta(days=days)).strftime(...)
Cutoff(t, days) == Strftime(t - days * Day)

\* clean_old_logs, were the row at the cutoff deleted too
clean_old_logs_inclusive(tbl, t, days) ==
    LET kept == SelectSeq(tbl, LAMBDA row : TextLess(Cutoff(t, days), row.timestamp))
    IN  [request_logs |-> kept, deleted_count |-> Len(tbl) - Len(kept)]

\* DELETE FROM request_logs WHERE timestamp < ?, and cursor.rowcount
clean_old_logs(tbl, t, days) ==
    LET kept == SelectSeq(tbl, LAMBDA row : ~TextLess(row.timestamp, Cutoff(t, days)))
    IN  [request_logs |-> kept, deleted_count |-> Len(tbl) - Len(kept)]

\* TotalRequests, were the row at the cutoff left out
TotalRequestsExclusive(tbl, cutoff) ==
    Cardinality({ i \in DOMAIN tbl : TextLess(cutoff, tbl[i].timestamp) })

\* SELECT COUNT(*) FROM request_logs WHERE timestamp >= ?
TotalRequests(tbl, cutoff) ==
    Cardinality({ i \in DOMAIN tbl : ~TextLess(tbl[i].timestamp, cutoff) })

\* SuccessRequests, were the window left out of the second query
SuccessRequestsUnwindowed(tbl, cutoff) ==
    Cardinality({ i \in DOMAIN tbl : tbl[i].success })

\* SELECT COUNT(*) FROM request_logs WHERE timestamp >= ? AND success = 1
SuccessRequests(tbl, cutoff) ==
    Cardinality({ i \in DOMAIN tbl : ~TextLess(tbl[i].timestamp, cutoff) /\ tbl[i].success })

RECURSIVE Gcd(_, _)
Gcd(a, b) == IF b = 0 THEN a ELSE Gcd(b, a % b)

\* the number num/den, in lowest terms
Ratio(num, den) == [num |-> num \div Gcd(num, den), den |-> den \div Gcd(num, den)]

\* (success_requests / total_requests * 100) if total_requests > 0 else 0
SuccessRate(success_requests, total_requests) ==
    IF total_requests > 0 THEN Ratio(success_requests * 100, total_requests) ELSE Ratio(0, 1)

\* get_statistics at clock reading t.  avg_response_time, the average over the
\* same window of a column the rows here do not carry, is left out.
get_statistics(tbl, t, days) ==
    LET total_requests == TotalRequests(tbl, Cutoff(t, days))
        success_requests == SuccessRequests(tbl, Cutoff(t, days))
    IN  [total_requests |-> total_requests,
         success_requests |-> success_requests,
         failed_requests |-> total_requests - success_requests,
         success_rate |-> SuccessRate(success_requests, total_requests)]

NoStatistics ==
    [total_requests |-> 0, success_requests |-> 0, failed_requests |-> 0,
     success_rate |-> Ratio(0, 1)]

\* OrderByTimestampDesc, were the rows returned oldest first
OrderByTimestampAsc(rows) ==
    { [i \in DOMAIN rows |-> rows[p[i]]] :
        p \in { q \in [DOMAIN rows -> DOMAIN rows] :
                  /\ \A i, j \in DOMAIN rows : i # j => q[i] # q[j]
                  /\ \A i, j \in DOMAIN rows :
                        i < j => ~TextLess(rows[q[j]].timestamp, rows[q[i]].timestamp) } }

\* ORDER BY timestamp DESC: the orders the rows can come back in; SQL leaves
\* the order of rows with equal timestamps open
OrderByTimestampDesc(rows) ==
    { [i \in DOMAIN rows |-> rows[p[i]]] :
        p \in { q \in [DOMAIN rows -> DOMAIN rows] :
                  /\ \A i, j \in DOMAIN rows : i # j => q[i] # q[j]
                  /\ \A i, j \in DOMAIN rows :
                        i < j => ~TextLess(rows[q[i]].timestamp, rows[q[j]].timestamp) } }

\* LIMIT ?: a negative limit is no limit
Limit(rows, limit) ==
    IF limit < 0 THEN rows ELSE SubSeq(rows, 1, Min(Len(rows), limit))

\* get_recent_logs: the lists it can return
get_recent_logs(tbl, limit) == { Limit(o, limit) : o \in OrderByTimestampDesc(tbl) }

\* WHERE corp_id = ?: a NULL corp_id equals nothing
CorpIdEquals(row, corp_id) == row.corp_id # PyNone /\ corp_id # PyNone /\ row.corp_id = corp_id

\* get_logs_by_corp_id: the lists it can return
get_logs_by_corp_id(tbl, corp_id, limit) ==
    { Limit(o, limit) :
        o \in OrderByTimestampDesc(SelectSeq(tbl, LAMBDA row : CorpIdEquals(row, corp_id))) }

---------------------------------------------------------------------------
(* POST /send *)

\* a key the JSON object does not hold
Absent == [t |-> "absent", s |-> <<>>, n |-> 0]

\* data.get(key) and data.get(key, default)
Get(value, default) == IF value = Absent THEN default ELSE value

Digits == {"0", "1", "2", "3", "4", "5", "6", "7", "8", "9"}

DigitValue(ch) ==
    CASE ch = "0" -> 0 [] ch = "1" -> 1 [] ch = "2" -> 2 [] ch = "3" -> 3 [] ch = "4" -> 4
      [] ch = "5" -> 5 [] ch = "6" -> 6 [] ch = "7" -> 7 [] ch = "8" -> 8 [] OTHER -> 9

\* int(chars) raises ValueError unless chars is a decimal literal
IsIntLiteral(chars) == Len(chars) > 0 /\ \A i \in DOMAIN chars : chars[i] \in Digits

RECURSIVE ParseInt(_)
ParseInt(chars) ==
    IF chars = <<>> THEN 0
    ELSE 10 * ParseInt(SubSeq(chars, 1, Len(chars) - 1)) + DigitValue(chars[Len(chars)])

\* the JSON envelope {"success": False, "error": text}
ErrorBody(text) == Result({"success", "error"}, FALSE, PyNone, PyNone, PyNone, PyNone, text)

Response(status, body) == [status |-> status, body |-> body]

NoResponse == Response(0, NoResult)

\* the handler's locals as lines 54-60 initialise them
Locals0 ==
    [corpid |-> PyNone, agentid |-> PyNone, touser |-> PyNone, message |-> PyNone,
     status_code |-> 200, success |-> TRUE, error_msg |-> PyNone]

\* a validation branch: status 400, the logged text, the text of the envelope
Reject(l, logged, shown) ==
    [locals |-> [l EXCEPT !.status_code = 400, !.success = FALSE, !.error_msg = PyStr(<<logged>>)],
     resp |-> Response(400, ErrorBody(PyStr(<<shown>>))),
     next |-> "audit"]

\* the `except Exception as e` branch
Caught(l, e) ==
    [locals |-> [l EXCEPT !.status_code = 500, !.success = FALSE, !.error_msg = e.msg],
     resp |-> Response(500, ErrorBody(FString("server error: ", e.msg))),
     next |-> "audit"]

\* validation passed: the client is constructed next
Proceed(l) == [locals |-> l, resp |-> NoResponse, next |-> "token"]

\* request.get_json() returned a falsy value: None or an empty container
BodyFalsy(body) == body.kind \in {"none", "emptyobj", "emptyarray"}

\* ValidateMessage, were the `if not message` check left out
ValidateMessageUnchecked(l2, body) ==
    LET l3 == [l2 EXCEPT !.message = Get(body.message, PyNone)]
        l4 == [l3 EXCEPT !.touser = Get(body.touser, AtAll)]
    IN  IF ~Sliceable(l4.message)
        THEN Caught(l4, Exc("TypeError", PyStr(<<"object is not subscriptable">>)))
        ELSE Proceed(l4)

\* ValidateMessage, were touser read without its default
ValidateMessageNoDefault(l2, body) ==
    LET l3 == [l2 EXCEPT !.message = Get(body.message, PyNone)]
        l4 == [l3 EXCEPT !.touser = Get(body.touser, PyNone)]
    IN  IF ~Truthy(l3.message)
        THEN Reject(l3, "message content is empty", "message content must not be empty")
        ELSE IF ~Sliceable(l4.message)
        THEN Caught(l4, Exc("TypeError", PyStr(<<"object is not subscriptable">>)))
        ELSE Proceed(l4)

\* the tail of the validations, from data.get("message") on
ValidateMessage(l2, body) ==
    LET l3 == [l2 EXCEPT !.message = Get(body.message, PyNone)]
        l4 == [l3 EXCEPT !.touser = Get(body.touser, AtAll)]
    IN  IF ~Truthy(l3.message)
        THEN Reject(l3, "message content is empty", "message content must not be empty")
        ELSE IF ~Sliceable(l4.message)
        THEN Caught(l4, Exc("TypeError", PyStr(<<"object is not subscriptable">>)))
        ELSE Proceed(l4)

\* Validate, were the body read before X-Agent-Id is converted
ValidateBodyFirst(input) ==
    LET l1 == [Locals0 EXCEPT !.corpid = input.corpid, !.agentid = input.agentid]
        l2 == [l1 EXCEPT !.agentid = PyInt(ParseInt(input.agentid.s))]
    IN  IF ~Truthy(input.corpid)
        THEN Reject(l1, "missing header X-Corp-Id", "missing header X-Corp-Id")
        ELSE IF ~Truthy(input.corpsecret)
        THEN Reject(l1, "missing header X-Corp-Secret", "missing header X-Corp-Secret")
        ELSE IF ~Truthy(input.agentid)
        THEN Reject(l1, "missing header X-Agent-Id", "missing header X-Agent-Id")
        ELSE IF input.body.kind = "badjson"
        THEN Caught(l1, Exc("BadRequest", PyStr(<<"400 Bad Request: Failed to decode JSON object">>)))
        ELSE IF BodyFalsy(input.body)
        THEN Reject(l1, "request body is empty", "request body must not be empty")
        ELSE IF ~IsIntLiteral(input.agentid.s)
        THEN Reject(l1, "X-Agent-Id must be numeric", "X-Agent-Id must be numeric")
        ELSE IF input.body.kind # "object"
        THEN Caught(l2, Exc("AttributeError", PyStr(<<"object has no attribute 'get'">>)))
        ELSE ValidateMessage(l2, input.body)

\* utils.helpers.validate_headers on the same three headers
validate_headers(input) ==
    IF ~Truthy(input.corpid)
    THEN [valid |-> FALSE, error |-> PyStr(<<"missing header X-Corp-Id">>)]
    ELSE IF ~Truthy(input.corpsecret)
    THEN [valid |-> FALSE, error |-> PyStr(<<"missing header X-Corp-Secret">>)]
    ELSE IF ~Truthy(input.agentid)
    THEN [valid |-> FALSE, error |-> PyStr(<<"missing header X-Agent-Id">>)]
    ELSE IF ~IsIntLiteral(input.agentid.s)
    THEN [valid |-> FALSE, error |-> PyStr(<<"X-Agent-Id must be numeric">>)]
    ELSE [valid |-> TRUE, error |-> PyStr(<<>>)]

\* send_message from its first line to the construction of the client
Validate(input) ==
    LET l1 == [Locals0 EXCEPT !.corpid = input.corpid, !.agentid = input.agentid]
        l2 == [l1 EXCEPT !.agentid = PyInt(ParseInt(input.agentid.s))]
    IN  IF ~Truthy(input.corpid)
        THEN Reject(l1, "missing header X-Corp-Id", "missing header X-Corp-Id")
        ELSE IF ~Truthy(input.corpsecret)
        THEN Reject(l1, "missing header X-Corp-Secret", "missing header X-Corp-Secret")
        ELSE IF ~Truthy(input.agentid)
        THEN Reject(l1, "missing header X-Agent-Id", "missing header X-Agent-Id")
        ELSE IF ~IsIntLiteral(input.agentid.s)
        THEN Reject(l1, "X-Agent-Id must be numeric", "X-Agent-Id must be numeric")
        ELSE IF input.body.kind = "badjson"
        THEN Caught(l2, Exc("BadRequest", PyStr(<<"400 Bad Request: Failed to decode JSON object">>)))
        ELSE IF BodyFalsy(input.body)
        THEN Reject(l2, "request body is empty", "request body must not be empty")
        ELSE IF input.body.kind # "object"
        THEN Caught(l2, Exc("AttributeError", PyStr(<<"object has no attribute 'get'">>)))
        ELSE ValidateMessage(l2, input.body)

\* Respond, were `success = False` forgotten on the failure branch
RespondKeepingSuccess(l, result) ==
    IF result.success
    THEN [locals |-> l, resp |-> Response(200, result), next |-> "audit"]
    ELSE [locals |-> [l EXCEPT !.status_code = 500,
                               !.error_msg = IF "errmsg" \in result.keys THEN result.errmsg
                                             ELSE IF "error" \in result.keys THEN result.error
                                             ELSE PyNone],
          resp |-> Response(500, result), next |-> "audit"]

\* Respond, were a failed send answered like a successful one
RespondAlways200(l, result) ==
    [locals |-> l, resp |-> Response(200, result), next |-> "audit"]

\* lines 155-163: the response for the dict send_text_message returned
Respond(l, result) ==
    IF result.success
    THEN [locals |-> l, resp |-> Response(200, result), next |-> "audit"]
    ELSE [locals |-> [l EXCEPT !.status_code = 500, !.success = FALSE,
                               !.error_msg = IF "errmsg" \in result.keys THEN result.errmsg
                                             ELSE IF "error" \in result.keys THEN result.error
                                             ELSE PyNone],
          resp |-> Response(500, result), next |-> "audit"]

\* LogValues, were the message logged whole
LogValuesWholeMessage(l) ==
    [corp_id |-> l.corpid, agent_id |-> l.agentid, touser |-> l.touser,
     message |-> IF Truthy(l.message) THEN l.message ELSE PyNone,
     status_code |-> l.status_code, success |-> l.success, error_message |-> l.error_msg]

\* the values the finally block passes to insert_request_log
LogValues(l) ==
    [corp_id |-> l.corpid, agent_id |-> l.agentid, touser |-> l.touser,
     message |-> IF Truthy(l.message) THEN Slice(l.message, ExcerptLen) ELSE PyNone,
     status_code |-> l.status_code, success |-> l.success, error_message |-> l.error_msg]

\* Finally, were the audit write not wrapped in try/except
FinallyUnguarded(l, tbl, last, t, handler, storageOk) ==
    IF Truthy(l.message) /\ ~Sliceable(l.message)
    THEN [request_logs |-> tbl, lastRowId |-> last, audit |-> "not_called",
          escaped |-> Exc("TypeError", PyStr(<<"object is not subscriptable">>))]
    ELSE LET ins == insert_request_log(tbl, last, t, handler, LogValues(l), storageOk)
         IN  [request_logs |-> ins.request_logs, lastRowId |-> ins.lastRowId,
              audit |-> IF ins.raised THEN ins.exc.cls ELSE "inserted",
              escaped |-> ins.exc]

\* the finally block: message[:500] raises for a message that cannot be
\* sliced, insert_request_log may raise; `except Exception as db_error` logs
\* either and lets nothing escape
Finally(l, tbl, last, t, handler, storageOk) ==
    IF Truthy(l.message) /\ ~Sliceable(l.message)
    THEN [request_logs |-> tbl, lastRowId |-> last, audit |-> "not_called", escaped |-> NoExc]
    ELSE LET ins == insert_request_log(tbl, last, t, handler, LogValues(l), storageOk)
         IN  [request_logs |-> ins.request_logs, lastRowId |-> ins.lastRowId,
              audit |-> IF ins.raised THEN ins.exc.cls ELSE "inserted",
              escaped |-> NoExc]

\* what the caller receives: the value returned in the try or except branch,
\* unless an exception escaped the finally block (then Flask answers 500)
Deliver(resp, escaped) ==
    IF escaped = NoExc THEN resp
    ELSE Response(500, ErrorBody(PyStr(<<"Internal Server Error">>)))

---------------------------------------------------------------------------
(* The requests a caller can send: the three headers as Flask hands them   *)
(* over (None when absent) and the body as request.get_json() finds it:    *)
(* "none" it returns None, "badjson" it raises BadRequest, "emptyobj" {},  *)
(* "emptyarray" [], "array" a non-empty array, "object" a non-empty        *)
(* object with the message and touser it holds (Absent when it does not).  *)

Body(kind, message, touser) == [kind |-> kind, message |-> message, touser |-> touser]

LongMessage == PyStr([i \in 1..(ExcerptLen + 1) |-> "m"])

Bodies ==
    { Body(k, Absent, Absent) : k \in {"none", "badjson", "emptyobj", "emptyarray", "array"} }
    \cup { Body("object", m, tu) :
             m \in {Absent, PyStr(<<>>), Hi, LongMessage, PyInt(123), PyList(<<"x">>)},
             tu \in {Absent, PyStr(<<"u", "1">>)} }

Inputs ==
    [corpid : {PyNone, CorpA},
     corpsecret : {PyNone, SecretA},
     agentid : {PyNone, PyStr(<<"a", "b", "c">>), PyStr(<<"1", "7">>)},
     body : Bodies]

NoInput ==
    [corpid |-> PyNone, corpsecret |-> PyNone, agentid |-> PyNone,
     body |-> Body("unread", Absent, Absent)]

\* a handler: its position, the request, its locals, the client it made and
\* the token send_text_message holds, the upstream requests it issued and the
\* replies it got, the response computed by its return statement, the outcome of the audit write
\* and the response the caller received
IdleReq ==
    [pc |-> "idle", input |-> NoInput, locals |-> Locals0,
     constructed |-> FALSE, cli |-> WechatWorkClient(PyNone, PyNone, PyNone),
     access_token |-> PyNone, wire |-> <<>>, treply |-> NoReply, preply |-> NoReply,
     result |-> NoResult,
     resp |-> NoResponse, audit |-> "none", delivered |-> NoResponse]

\* a fresh client's first refresh; its lifetime plays no part in one request
GatewayTokenReplies == { rp \in TokenReplies : rp.expires_in = <<>> }

\* ReceiveFrom, were the client kept between requests and handed to the next
ReceiveFromKeepingClient(r, inputs) ==
    /\ req[r].pc = "idle"
    /\ \E input \in inputs :
          LET v == Validate(input)
              kept == { q \in DOMAIN req : req[q].cli.access_token # PyNone }
          IN  req' = [req EXCEPT ![r] =
                        [@ EXCEPT !.pc = v.next, !.input = input, !.locals = v.locals,
                                  !.resp = v.resp,
                                  !.constructed = (v.next = "token"),
                                  !.cli = IF v.next = "token" /\ kept # {}
                                          THEN req[CHOOSE q \in kept : TRUE].cli
                                          ELSE IF v.next = "token"
                                          THEN WechatWorkClient(v.locals.corpid, input.corpsecret,
                                                         v.locals.agentid)
                                          ELSE @]]
    /\ UNCHANGED <<now, client, call, request_logs, lastRowId, dbcall, conn>>

\* lines 47-147: a request, one of `inputs`, arrives and is validated
ReceiveFrom(r, inputs) ==
    /\ req[r].pc = "idle"
    /\ \E input \in inputs :
          LET v == Validate(input)
          IN  req' = [req EXCEPT ![r] =
                        [@ EXCEPT !.pc = v.next, !.input = input, !.locals = v.locals,
                                  !.resp = v.resp,
                                  !.constructed = (v.next = "token"),
                                  !.cli = IF v.next = "token"
                                          THEN WechatWorkClient(v.locals.corpid, input.corpsecret,
                                                         v.locals.agentid)
                                          ELSE @]]
    /\ UNCHANGED <<now, client, call, request_logs, lastRowId, dbcall, conn>>

Receive(r) == ReceiveFrom(r, Inputs)

\* send_text_message's get_access_token, an exception going to the handler's
\* except branch
TokenStep(r) ==
    /\ req[r].pc = "token"
    /\ \E treply \in GatewayTokenReplies :
          LET g == get_access_token(req[r].cli, now, now, treply)
              w == req[r].wire \o (IF g.requested THEN <<TokenRequest(req[r].cli)>> ELSE <<>>)
              c == Caught(req[r].locals, g.exc)
          IN  req' = [req EXCEPT ![r] =
                        IF g.raised
                        THEN [@ EXCEPT !.pc = c.next, !.locals = c.locals, !.resp = c.resp,
                                       !.wire = w, !.treply = treply]
                        ELSE [@ EXCEPT !.pc = "post", !.cli = g.client,
                                       !.access_token = g.value, !.wire = w,
                                       !.treply = treply]]
    /\ UNCHANGED <<now, client, call, request_logs, lastRowId, dbcall, conn>>

\* send_text_message's POST and the handler's return
PostStep(r) ==
    /\ req[r].pc = "post"
    /\ \E preply \in SendReplies :
          LET args == [NoArgs EXCEPT !.content = req[r].locals.message,
                                     !.touser = req[r].locals.touser]
              p == ClassifyText(preply)
              v == IF p.raised THEN Caught(req[r].locals, p.exc)
                   ELSE Respond(req[r].locals, p.result)
          IN  req' = [req EXCEPT ![r] =
                        [@ EXCEPT !.pc = v.next, !.locals = v.locals, !.resp = v.resp,
                                  !.result = p.result, !.preply = preply,
                                  !.wire = @ \o <<PostRequest(req[r].access_token,
                                                              TextPayload(req[r].cli, args))>>]]
    /\ UNCHANGED <<now, client, call, request_logs, lastRowId, dbcall, conn>>

\* the finally block, and the response going out
Audit(r) ==
    /\ req[r].pc = "audit"
    /\ \E storageOk \in BOOLEAN :
          LET f == Finally(req[r].locals, request_logs, lastRowId, now, r, storageOk)
          IN  /\ request_logs' = f.request_logs
              /\ lastRowId' = f.lastRowId
              /\ req' = [req EXCEPT ![r] =
                           [@ EXCEPT !.pc = "done", !.audit = f.audit,
                                     !.delivered = Deliver(req[r].resp, f.escaped)]]
    /\ UNCHANGED <<now, client, call, dbcall, conn>>

---------------------------------------------------------------------------
(* GET /logs, GET /statistics and the DatabaseManager's other operations,  *)
(* called while the clock advances (SpecStore).                            *)

DefaultLimit == 100

DefaultDays == 7

\* int(chars) also takes a sign
IsSignedIntLiteral(chars) ==
    \/ IsIntLiteral(chars)
    \/ Len(chars) > 1 /\ chars[1] \in {"-", "+"} /\ IsIntLiteral(Tail(chars))

ParseSignedInt(chars) ==
    CASE chars[1] = "-" -> 0 - ParseInt(Tail(chars))
      [] chars[1] = "+" -> ParseInt(Tail(chars))
      [] OTHER          -> ParseInt(chars)

\* request.args.get(key, default, type=int): the default when the parameter
\* is missing or int() refuses it
IntArg(arg, default) ==
    IF arg # Absent /\ IsSignedIntLiteral(arg.s) THEN ParseSignedInt(arg.s) ELSE default

\* GET /logs: the query it runs and the lists the query can return
get_logs(tbl, limitArg, corpArg) ==
    LET limit == IntArg(limitArg, DefaultLimit)
        corp_id == Get(corpArg, PyNone)
    IN  IF Truthy(corp_id)
        THEN [op |-> "get_logs_by_corp_id", limit |-> limit, corp_id |-> corp_id,
              logs |-> get_logs_by_corp_id(tbl, corp_id, limit)]
        ELSE [op |-> "get_recent_logs", limit |-> limit, corp_id |-> corp_id,
              logs |-> get_recent_logs(tbl, limit)]

\* the record kept of a call: the clock reading and the table it found, its
\* arguments, what it returned, and for get_statistics the call right before
\* it when that was a get_statistics over the same number of days
DbCall(op, t, days, limit, corp_id, pre, deleted_count, stats, logs, prev) ==
    [op |-> op, t |-> t, days |-> days, limit |-> limit, corp_id |-> corp_id,
     pre |-> pre, deleted_count |-> deleted_count, stats |-> stats, logs |-> logs,
     prev |-> prev]

NoPrev == [valid |-> FALSE, t |-> 0, stats |-> NoStatistics]

NoDbCall == DbCall("none", 0, 0, 0, PyNone, <<>>, 0, NoStatistics, <<>>, NoPrev)

\* no result is waiting to be taken
StoreIdle == dbcall.op = "none"

\* the clock readings of the model
Instants == {0, 10 * Day - 1, 10 * Day, 35 * Day, 40 * Day}

\* the readings insert_request_log may have taken at line 130 when its INSERT
\* is committed at `now`
Stamps == { t \in Instants : t <= now /\ now - t <= MaxWriteLatency }

\* the values a handler logs: two tenants, a failed send, a request without
\* X-Corp-Id
StoreValues ==
    { [corp_id |-> x[1], agent_id |-> PyInt(17), touser |-> AtAll, message |-> Hi,
       status_code |-> x[2], success |-> (x[2] = 200), error_message |-> PyNone] :
        x \in {<<CorpA, 200>>, <<CorpA, 500>>, <<CorpB, 200>>, <<PyNone, 400>>} }

PruneDays == {0, 5, 30}

DaysArgs == {Absent, PyStr(<<"3", "0">>), PyStr(<<"0">>), PyStr(<<"x">>)}

LimitArgs == {Absent, PyStr(<<"0">>), PyStr(<<"1">>), PyStr(<<"-", "1">>)}

CorpArgs == {Absent, PyStr(<<>>), CorpA, CorpB}

Pass ==
    /\ StoreIdle \/ dbcall.op = "get_statistics"
    /\ \E t \in Instants : t > now /\ now' = t
    /\ UNCHANGED <<client, call, req, request_logs, lastRowId, dbcall, conn>>

InsertLog ==
    /\ StoreIdle
    /\ lastRowId < MaxInserts
    /\ \E v \in StoreValues, t \in Stamps :
          LET ins == insert_request_log(request_logs, lastRowId, t, 0, v, TRUE)
          IN  /\ request_logs' = ins.request_logs
              /\ lastRowId' = ins.lastRowId
    /\ UNCHANGED <<now, client, call, req, dbcall, conn>>

CleanOldLogs ==
    /\ StoreIdle
    /\ \E days \in PruneDays :
          LET c == clean_old_logs(request_logs, now, days)
          IN  /\ request_logs' = c.request_logs
              /\ dbcall' = DbCall("clean_old_logs", now, days, 0, PyNone, request_logs,
                                  c.deleted_count, NoStatistics, <<>>, NoPrev)
    /\ UNCHANGED <<now, client, call, req, lastRowId, conn>>

GetStatistics ==
    /\ StoreIdle \/ dbcall.op = "get_statistics"
    /\ \E arg \in DaysArgs :
          LET days == IntArg(arg, DefaultDays)
          IN  dbcall' = DbCall("get_statistics", now, days, 0, PyNone, request_logs, 0,
                               get_statistics(request_logs, now, days), <<>>,
                               IF dbcall.op = "get_statistics" /\ dbcall.days = days
                               THEN [valid |-> TRUE, t |-> dbcall.t, stats |-> dbcall.stats]
                               ELSE NoPrev)
    /\ UNCHANGED <<now, client, call, req, request_logs, lastRowId, conn>>

GetLogs ==
    /\ StoreIdle
    /\ \E limitArg \in LimitArgs, corpArg \in CorpArgs :
          LET q == get_logs(request_logs, limitArg, corpArg)
          IN  \E logs \in q.logs :
                dbcall' = DbCall(q.op, now, 0, q.limit, q.corp_id, request_logs, 0,
                                 NoStatistics, logs, NoPrev)
    /\ UNCHANGED <<now, client, call, req, request_logs, lastRowId, conn>>

\* the caller takes the value returned
StoreTakeResult ==
    /\ ~StoreIdle
    /\ dbcall' = NoDbCall
    /\ UNCHANGED <<now, client, call, req, request_logs, lastRowId, conn>>

---------------------------------------------------------------------------
(* The DatabaseManager's operations statement by statement, each under       *)
(* get_connection, run by threads that share the database file              *)

Threads == 1..NumThreads

\* a connection's transaction: the table as the connection sees it once it
\* has written, not yet committed
NoPending == [valid |-> FALSE, request_logs |-> <<>>, lastRowId |-> 0]

NoValues ==
    [corp_id |-> PyNone, agent_id |-> PyNone, touser |-> PyNone, message |-> PyNone,
     status_code |-> 0, success |-> FALSE, error_message |-> PyNone]

\* a thread outside every operation: no connection
NoOp ==
    [op |-> "none", pc |-> "idle", open |-> FALSE, t |-> 0, days |-> 0, v |-> NoValues,
     pending |-> NoPending, total_requests |-> 0, stats |-> NoStatistics,
     deleted_count |-> 0, lastrowid |-> 0, logs |-> <<>>, raised |-> FALSE, exc |-> NoExc]

\* conn = sqlite3.connect(self.db_path), at the head of operation op whose
\* clock reading is t: a connection of the operation's own, nothing written
Connect(op, t, days, v) ==
    [NoOp EXCEPT !.op = op, !.pc = "open", !.open = TRUE, !.t = t, !.days = days, !.v = v]

\* get_connection, were the work committed on the exception path too
get_connection_committing(tbl, last, c, e) ==
    [request_logs |-> IF c.pending.valid THEN c.pending.request_logs ELSE tbl,
     lastRowId |-> IF c.pending.valid THEN c.pending.lastRowId ELSE last,
     conn |-> IF e = NoExc
              THEN [NoOp EXCEPT !.op = c.op, !.pc = "returned", !.stats = c.stats,
                                !.deleted_count = c.deleted_count,
                                !.lastrowid = c.lastrowid, !.logs = c.logs]
              ELSE [NoOp EXCEPT !.op = c.op, !.pc = "returned", !.raised = TRUE, !.exc = e]]

\* get_connection once the body is left.  e = NoExc: the body ended and
\* conn.commit() went through; the table becomes what the connection wrote.
\* Otherwise the body or conn.commit() raised e: conn.rollback(), raise e.
\* On both paths finally: conn.close().
get_connection(tbl, last, c, e) ==
    IF e = NoExc
    THEN [request_logs |-> IF c.pending.valid THEN c.pending.request_logs ELSE tbl,
          lastRowId |-> IF c.pending.valid THEN c.pending.lastRowId ELSE last,
          conn |-> [NoOp EXCEPT !.op = c.op, !.pc = "returned", !.stats = c.stats,
                                !.deleted_count = c.deleted_count,
                                !.lastrowid = c.lastrowid, !.logs = c.logs]]
    ELSE [request_logs |-> tbl, lastRowId |-> last,
          conn |-> [NoOp EXCEPT !.op = c.op, !.pc = "returned", !.raised = TRUE, !.exc = e]]

\* another connection holds the write lock of the database file: it has
\* written and not yet committed
WriteLocked(th) == \E o \in Threads \ {th} : conn[o].pending.valid

\* what sqlite3 raises once the busy timeout has run out
DatabaseLocked == Exc("sqlite3.OperationalError", PyStr(<<"database is locked">>))

\* the values the threads insert: a sent message, a failed one, and one whose
\* message sqlite3 cannot bind
ConnValues ==
    { [corp_id |-> CorpA, agent_id |-> PyInt(17), touser |-> AtAll, message |-> x[1],
       status_code |-> x[2], success |-> (x[2] = 200), error_message |-> PyNone] :
        x \in {<<Hi, 200>>, <<Hi, 500>>, <<PyList(<<"x">>), 200>>} }

\* clean_old_logs(self, days: int = 30)
DefaultPruneDays == 30

\* the clock readings of the threads: the start, and five weeks on
ConnInstants == {0, 35 * Day}

\* the clock moves on, whatever the threads are in the middle of
Elapse ==
    /\ \E t \in ConnInstants : t > now /\ now' = t
    /\ UNCHANGED <<client, call, req, request_logs, lastRowId, dbcall, conn>>

\* the exit of get_connection taken by thread th with outcome e
Exit(th, e) ==
    LET x == get_connection(request_logs, lastRowId, conn[th], e)
    IN  /\ request_logs' = x.request_logs
        /\ lastRowId' = x.lastRowId
        /\ conn' = [conn EXCEPT ![th] = x.conn]

\* insert_request_log: current_time is read, the connection opened
InsertConnect(th) ==
    /\ conn[th].pc = "idle"
    /\ lastRowId + Cardinality({ o \in Threads : conn[o].op = "insert_request_log"
                                                /\ conn[o].pc # "returned" }) < MaxInserts
    /\ \E v \in ConnValues :
          conn' = [conn EXCEPT ![th] = Connect("insert_request_log", now, 0, v)]
    /\ UNCHANGED <<now, client, call, req, request_logs, lastRowId, dbcall>>

\* cursor.execute of the INSERT: a parameter that cannot be bound, or a
\* write lock held elsewhere until the busy timeout, raises
InsertExecute(th) ==
    /\ conn[th].op = "insert_request_log" /\ conn[th].pc = "open"
    /\ LET c == conn[th]
       IN  IF ~AllBindable(c.v)
           THEN Exit(th, Exc("sqlite3.ProgrammingError", PyStr(<<"Error binding parameter">>)))
           ELSE IF WriteLocked(th)
           THEN Exit(th, DatabaseLocked)
           ELSE /\ conn' = [conn EXCEPT ![th] =
                      [c EXCEPT !.pc = "executed", !.lastrowid = lastRowId + 1,
                                !.pending = [valid |-> TRUE,
                                             request_logs |-> Append(request_logs,
                                                 Row(lastRowId + 1, c.t, 0, c.v)),
                                             lastRowId |-> lastRowId + 1]]]
                /\ UNCHANGED <<request_logs, lastRowId>>
    /\ UNCHANGED <<now, client, call, req, dbcall>>

\* return cursor.lastrowid: get_connection commits, or the commit fails
InsertExit(th) ==
    /\ conn[th].op = "insert_request_log" /\ conn[th].pc = "executed"
    /\ \E e \in {NoExc, DatabaseLocked} : Exit(th, e)
    /\ UNCHANGED <<now, client, call, req, dbcall>>

\* clean_old_logs: cutoff_time is read, the connection opened
PruneConnect(th) ==
    /\ conn[th].pc = "idle"
    /\ conn' = [conn EXCEPT ![th] = Connect("clean_old_logs", now, DefaultPruneDays, NoValues)]
    /\ UNCHANGED <<now, client, call, req, request_logs, lastRowId, dbcall>>

\* cursor.execute of the DELETE, and cursor.rowcount
PruneExecute(th) ==
    /\ conn[th].op = "clean_old_logs" /\ conn[th].pc = "open"
    /\ LET c == conn[th]
           d == clean_old_logs(request_logs, c.t, c.days)
       IN  IF WriteLocked(th)
           THEN Exit(th, DatabaseLocked)
           ELSE /\ conn' = [conn EXCEPT ![th] =
                      [c EXCEPT !.pc = "executed", !.deleted_count = d.deleted_count,
                                !.pending = [valid |-> TRUE,
                                             request_logs |-> d.request_logs,
                                             lastRowId |-> lastRowId]]]
                /\ UNCHANGED <<request_logs, lastRowId>>
    /\ UNCHANGED <<now, client, call, req, dbcall>>

\* clean_old_logs' conn.commit() and get_connection's own: the DELETE is
\* committed, or the commit fails
PruneExit(th) ==
    /\ conn[th].op = "clean_old_logs" /\ conn[th].pc = "executed"
    /\ \E e \in {NoExc, DatabaseLocked} : Exit(th, e)
    /\ UNCHANGED <<now, client, call, req, dbcall>>

\* get_statistics: the connection opened, cutoff_time read
StatisticsConnect(th) ==
    /\ conn[th].pc = "idle"
    /\ conn' = [conn EXCEPT ![th] = Connect("get_statistics", now, DefaultDays, NoValues)]
    /\ UNCHANGED <<now, client, call, req, request_logs, lastRowId, dbcall>>

\* the first SELECT COUNT(*), over what is committed at this moment
StatisticsTotal(th) ==
    /\ conn[th].op = "get_statistics" /\ conn[th].pc = "open"
    /\ LET c == conn[th]
       IN  conn' = [conn EXCEPT ![th] =
               [c EXCEPT !.pc = "total",
                         !.total_requests = TotalRequests(request_logs, Cutoff(c.t, c.days))]]
    /\ UNCHANGED <<now, client, call, req, request_logs, lastRowId, dbcall>>

\* the second SELECT COUNT(*), over what is committed at this later moment,
\* the figures derived from the two counts, and the return
StatisticsSuccess(th) ==
    /\ conn[th].op = "get_statistics" /\ conn[th].pc = "total"
    /\ LET c == conn[th]
           success_requests == SuccessRequests(request_logs, Cutoff(c.t, c.days))
           stats == [total_requests |-> c.total_requests,
                     success_requests |-> success_requests,
                     failed_requests |-> c.total_requests - success_requests,
                     success_rate |-> SuccessRate(success_requests, c.total_requests)]
           x == get_connection(request_logs, lastRowId, [c EXCEPT !.stats = stats], NoExc)
       IN  conn' = [conn EXCEPT ![th] = x.conn]
    /\ UNCHANGED <<now, client, call, req, request_logs, lastRowId, dbcall>>

\* get_recent_logs or get_logs_by_corp_id: the connection opened
LogsConnect(th) ==
    /\ conn[th].pc = "idle"
    /\ \E op \in {"get_recent_logs", "get_logs_by_corp_id"} :
          conn' = [conn EXCEPT ![th] = Connect(op, 0, 0, NoValues)]
    /\ UNCHANGED <<now, client, call, req, request_logs, lastRowId, dbcall>>

\* the SELECT, fetchall and the return
LogsSelect(th) ==
    /\ conn[th].op \in {"get_recent_logs", "get_logs_by_corp_id"} /\ conn[th].pc = "open"
    /\ \E logs \in IF conn[th].op = "get_recent_logs"
                    THEN get_recent_logs(request_logs, DefaultLimit)
                    ELSE get_logs_by_corp_id(request_logs, CorpA, DefaultLimit) :
          LET x == get_connection(request_logs, lastRowId,
                                  [conn[th] EXCEPT !.logs = logs], NoExc)
          IN  conn' = [conn EXCEPT ![th] = x.conn]
    /\ UNCHANGED <<now, client, call, req, request_logs, lastRowId, dbcall>>

\* the caller takes what the operation returned or raised
Return(th) ==
    /\ conn[th].pc = "returned"
    /\ conn' = [conn EXCEPT ![th] = NoOp]
    /\ UNCHANGED <<now, client, call, req, request_logs, lastRowId, dbcall>>

ConnInit == conn = [th \in Threads |-> NoOp]

ClientInit ==
    /\ now = 0
    /\ client = WechatWorkClient(CorpA, SecretA, PyInt(1000002))
    /\ call = NoCall

GatewayInit ==
    /\ req = [r \in Reqs |-> IdleReq]
    /\ request_logs = <<>>
    /\ lastRowId = 0

StoreInit == dbcall = NoDbCall

Init == ClientInit /\ GatewayInit /\ StoreInit /\ ConnInit

NextClient ==
    \/ Tick
    \/ CallGetAccessToken
    \/ CallSendText
    \/ CallSendMarkdown
    \/ CallSendTextcard
    \/ CallSendNews
    \/ TakeResult

SpecClient == Init /\ [][NextClient]_vars

Next ==
    \E r \in Reqs :
        \/ Receive(r)
        \/ TokenStep(r)
        \/ PostStep(r)
        \/ Audit(r)

Spec == Init /\ [][Next]_vars

(* SpecConcurrent: several POST /send handlers of two tenants at once,     *)
(* their steps interleaved with each other and with clean_old_logs.  The   *)
(* handlers run within one second of the clock.                            *)

Handlers == 1..NumHandlers

\* the requests of the two tenants, one with a message that is no text, and
\* one without X-Corp-Id
ConcurrentInputs ==
    { [corpid |-> CorpA, corpsecret |-> SecretA, agentid |-> PyStr(<<"1", "7">>),
       body |-> Body("object", Hi, Absent)],
      [corpid |-> CorpB, corpsecret |-> SecretB, agentid |-> PyStr(<<"1", "8">>),
       body |-> Body("object", Hi, PyStr(<<"u", "1">>))],
      [corpid |-> CorpA, corpsecret |-> SecretA, agentid |-> PyStr(<<"1", "7">>),
       body |-> Body("object", PyInt(123), Absent)],
      [corpid |-> PyNone, corpsecret |-> SecretB, agentid |-> PyStr(<<"1", "8">>),
       body |-> Body("object", Hi, Absent)] }

ConcurrentInit ==
    /\ ClientInit
    /\ StoreInit
    /\ ConnInit
    /\ req = [r \in Handlers |-> IdleReq]
    /\ request_logs = <<>>
    /\ lastRowId = 0

NextConcurrent ==
    \/ \E r \in Handlers :
          \/ ReceiveFrom(r, ConcurrentInputs)
          \/ TokenStep(r)
          \/ PostStep(r)
          \/ Audit(r)
    \/ CleanOldLogs
    \/ StoreTakeResult

SpecConcurrent == ConcurrentInit /\ [][NextConcurrent]_vars

NextStore ==
    \/ Pass
    \/ InsertLog
    \/ CleanOldLogs
    \/ GetStatistics
    \/ GetLogs
    \/ StoreTakeResult

SpecStore == Init /\ [][NextStore]_vars

NextConnections ==
    \/ Elapse
    \/ \E th \in Threads :
          \/ InsertConnect(th)
          \/ InsertExecute(th)
          \/ InsertExit(th)
          \/ PruneConnect(th)
          \/ PruneExecute(th)
          \/ PruneExit(th)
          \/ StatisticsConnect(th)
          \/ StatisticsTotal(th)
          \/ StatisticsSuccess(th)
          \/ LogsConnect(th)
          \/ LogsSelect(th)
          \/ Return(th)

SpecConnections == Init /\ [][NextConnections]_vars

---------------------------------------------------------------------------
(* Properties of the client (SpecClient) *)

\* the requests to `endpoint` among the upstream requests w
Issued(w, endpoint) == { i \in DOMAIN w : w[i].endpoint = endpoint }

SendOps ==
    {"send_text_message", "send_markdown_message", "send_textcard_message", "send_news_message"}

\* the reply to GET gettoken is a failed refresh
RefreshFailed(reply) == ~(reply.kind = "json" /\ reply.errcode = PyInt(0))

\* C5: a call asks the upstream for a token if and only if no token is cached
\* or the clock has reached expires_at; it never asks twice, and a call served
\* from the cache gets the cached token.
C5_TokenReuse ==
    ~Idle =>
        /\ Cardinality(Issued(call.wire, "gettoken")) =
              (IF call.pre.access_token = PyNone \/ call.t >= call.pre.token_expires_at
               THEN 1 ELSE 0)
        /\ (call.op = "get_access_token" /\ Issued(call.wire, "gettoken") = {})
              => call.value = call.pre.access_token

\* C5 witness: a call made one second after expires_at asks for a new token
C5_Witness ==
    /\ call.op = "get_access_token"
    /\ call.pre.access_token # PyNone
    /\ call.t = call.pre.token_expires_at + 1
    /\ Cardinality(Issued(call.wire, "gettoken")) = 1

\* a call made while now < expires_at is served from the cache
C5_CacheHit ==
    /\ call.op = "get_access_token"
    /\ call.pre.access_token # PyNone
    /\ call.t < call.pre.token_expires_at
    /\ call.wire = <<>>

\* C6: send_text_message returns, whatever the upstream does, a result that
\* is success=true without an error code, or success=false with an error code
\* or an error message.
C6_StructuredResult ==
    call.op = "send_text_message" =>
        /\ ~call.raised
        /\ \/ call.result.success /\ "errcode" \notin call.result.keys
           \/ /\ ~call.result.success
              /\ \/ call.result.errcode # PyNone
                 \/ call.result.errmsg # PyNone
                 \/ call.result.error # PyNone

\* C7: once a token is held, every send operation classifies the reply to its
\* POST alike: errcode 0 is a success carrying invaliduser, invalidparty and
\* invalidtag; any other or absent errcode is a failure carrying the upstream's
\* errcode and errmsg; a transport exception is a failure with an error
\* message and no errcode key.
C7_Classification ==
    (call.op \in SendOps /\ Issued(call.wire, "message/send") # {}) =>
        /\ (call.preply.kind = "json" /\ call.preply.errcode = PyInt(0)) =>
              /\ ~call.raised
              /\ call.result.success
              /\ call.result.keys = SuccessKeys
              /\ call.result.invaliduser = InvalidUserOf(call.preply)
        /\ (call.preply.kind = "json" /\ call.preply.errcode # PyInt(0)) =>
              /\ ~call.raised
              /\ ~call.result.success
              /\ call.result.keys = {"success", "errcode", "errmsg"}
              /\ call.result.errcode = call.preply.errcode
              /\ call.result.errmsg = call.preply.errmsg
        /\ call.preply.kind = "transport" =>
              /\ ~call.raised
              /\ ~call.result.success
              /\ call.result.keys = {"success", "error"}
              /\ Truthy(call.result.error)

\* C7 witness: send_news_message got a reply without errcode
C7_Witness ==
    /\ call.op = "send_news_message"
    /\ Issued(call.wire, "message/send") # {}
    /\ call.preply.kind = "json"
    /\ call.preply.errcode = PyNone
    /\ ~call.result.success

\* C8: when a refresh is needed and fails, get_access_token raises and returns
\* nothing; for an upstream errcode or a transport failure the exception's
\* text ends with the upstream's or the transport's message.
C8_FailedRefreshRaises ==
    (call.op = "get_access_token" /\ Issued(call.wire, "gettoken") # {}
        /\ RefreshFailed(call.treply)) =>
        /\ call.raised
        /\ call.value = PyNone
        /\ call.treply.kind \in {"json", "transport"} =>
              /\ call.exc.cls = "Exception"
              /\ Tail(call.exc.msg.s) = Format(call.treply.errmsg)

\* C8 witness: a stale token is cached and the refresh fails at transport level
C8_Witness ==
    /\ call.op = "get_access_token"
    /\ call.pre.access_token # PyNone
    /\ call.treply.kind = "transport"
    /\ call.raised

\* C10: one send operation issues at most one GET gettoken and at most one
\* POST message/send, the POST after the token was obtained and carrying it;
\* a failed POST is reported, not repeated.
C10_NoRetries ==
    call.op \in SendOps =>
        /\ Cardinality(Issued(call.wire, "gettoken")) <= 1
        /\ Cardinality(Issued(call.wire, "message/send")) <= 1
        /\ \A i \in Issued(call.wire, "message/send") :
              /\ i = Len(call.wire)
              /\ call.wire[i].access_token \in Tokens
              /\ IF Issued(call.wire, "gettoken") = {}
                 THEN call.wire[i].access_token = call.pre.access_token
                 ELSE /\ ~RefreshFailed(call.treply)
                      /\ call.wire[i].access_token = call.treply.access_token
        /\ (Issued(call.wire, "message/send") # {} /\ RefreshFailed(call.preply)) =>
              (call.raised \/ ~call.result.success)

\* C10 witness: the token was fetched, the POST failed and was reported
C10_Witness ==
    /\ call.op = "send_text_message"
    /\ Len(call.wire) = 2
    /\ call.preply.kind = "transport"
    /\ ~call.result.success

\* C11: send_news_message posts exactly the first min(n, 8) of the n articles
\* it was given, in their order; the POST is issued whenever a token was
\* obtained, whatever n is, and nothing is raised on account of n.
C11_NewsTruncation ==
    call.op = "send_news_message" =>
        LET n == Len(call.args.articles)
            posts == Issued(call.wire, "message/send")
        IN  /\ posts = {} <=> (Issued(call.wire, "gettoken") # {} /\ RefreshFailed(call.treply))
            /\ \A i \in posts :
                  LET sent == call.wire[i].payload.articles
                  IN  /\ call.wire[i].payload.msgtype = "news"
                      /\ Len(sent) = Min(n, 8)
                      /\ \A k \in 1..Len(sent) : sent[k] = call.args.articles[k]
            /\ call.raised => (posts = {} \/ call.preply.kind = "garbled_val")

\* C11 witness: the longest list in (ten articles), the first eight out, the
\* send a success
C11_Witness ==
    /\ call.op = "send_news_message"
    /\ Len(call.args.articles) = MaxArticles
    /\ \E i \in Issued(call.wire, "message/send") : Len(call.wire[i].payload.articles) = 8
    /\ ~call.raised
    /\ call.result.success

\* C20: a successful refresh whose reply is read at time t caches the token
\* returned with expires_at = t + expires_in - 300 (expires_in being 7200 when
\* the reply names none); a call is served from the cache exactly when a token
\* is cached and the clock is before expires_at, that is, until 300 seconds
\* before the expiry the upstream declared.
C20_ExpiryMargin ==
    ~Idle =>
        /\ (Issued(call.wire, "gettoken") # {} /\ ~RefreshFailed(call.treply)) =>
              /\ client.access_token = call.treply.access_token
              /\ client.token_expires_at =
                    now + (IF call.treply.expires_in = <<>> THEN 7200
                           ELSE call.treply.expires_in[1]) - 300
        /\ Issued(call.wire, "gettoken") = {} <=>
              (call.pre.access_token # PyNone /\ call.t < call.pre.token_expires_at)
        /\ Issued(call.wire, "gettoken") = {} => client = call.pre

\* C20 witness: the cached token has just reached expires_at, 300 seconds
\* before its upstream expiry; the call refreshes it and caches the new token,
\* declared to live 302 seconds, for 2 seconds
C20_Witness ==
    /\ call.op = "get_access_token"
    /\ call.pre.access_token # PyNone
    /\ call.t = call.pre.token_expires_at
    /\ call.treply.expires_in = <<302>>
    /\ client.access_token = call.treply.access_token
    /\ client.token_expires_at = now + 2

\* C24: a call whose refresh fails leaves access_token and token_expires_at as
\* they were before the call, and raises; a call changes either of the two
\* only when its GET gettoken was answered with errcode 0.
C24_FailedRefreshKeepsCache ==
    ~Idle =>
        /\ (Issued(call.wire, "gettoken") # {} /\ RefreshFailed(call.treply)) =>
              /\ call.raised
              /\ client.access_token = call.pre.access_token
              /\ client.token_expires_at = call.pre.token_expires_at
        /\ (client.access_token # call.pre.access_token
                \/ client.token_expires_at # call.pre.token_expires_at) =>
              /\ Issued(call.wire, "gettoken") # {}
              /\ call.treply.kind = "json"
              /\ call.treply.errcode = PyInt(0)

\* C24 witness: an expired token is cached, the upstream rejects the refresh
\* with an errcode, and the expired token and its expiry are still cached
C24_Witness ==
    /\ call.op = "get_access_token"
    /\ call.pre.access_token \in Tokens
    /\ call.t >= call.pre.token_expires_at
    /\ call.treply.errcode = PyInt(40013)
    /\ call.raised
    /\ client.access_token = call.pre.access_token
    /\ client.token_expires_at = call.pre.token_expires_at

---------------------------------------------------------------------------
(* Properties of POST /send (Spec) *)

\* the rows handler r wrote
RowsOf(r) == { i \in DOMAIN request_logs : request_logs[i].handler = r }

\* the request fails one of the validations (a)-(e): a header is missing,
\* X-Agent-Id is no integer, the body is missing or is not JSON, or it holds
\* no non-empty message
FailsValidation(input) ==
    \/ ~Truthy(input.corpid)
    \/ ~Truthy(input.corpsecret)
    \/ ~Truthy(input.agentid)
    \/ ~IsIntLiteral(input.agentid.s)
    \/ input.body.kind \in {"none", "badjson"}
    \/ ~Truthy(Get(input.body.message, PyNone))

\* the audit write was attempted and the database refused it
StorageFailed(r) == req[r].audit = "sqlite3.OperationalError"

\* C1: when a request has finished (the database accepting the write), the
\* request_logs holds exactly one row of it, and the row's status_code is the HTTP
\* status the caller received.
C1_AuditCompleteness ==
    \A r \in Reqs :
        (req[r].pc = "done" /\ ~StorageFailed(r)) =>
            /\ Cardinality(RowsOf(r)) = 1
            /\ \A i \in RowsOf(r) : request_logs[i].status_code = req[r].delivered.status

\* C2: a request failing a validation is answered with 400 and
\* {success: false, error}, and the row written for it has status_code 400.
C2_ValidationFailures400 ==
    \A r \in Reqs :
        (req[r].pc = "done" /\ FailsValidation(req[r].input)) =>
            /\ req[r].delivered.status = 400
            /\ req[r].delivered.body.keys = {"success", "error"}
            /\ ~req[r].delivered.body.success
            /\ \A i \in RowsOf(r) : request_logs[i].status_code = 400

\* C3: a request failing a validation issues no upstream request and
\* constructs no client, at any point of its handling.
C3_ValidationShortCircuits ==
    \A r \in Reqs :
        (req[r].pc # "idle" /\ FailsValidation(req[r].input)) =>
            /\ req[r].wire = <<>>
            /\ ~req[r].constructed
            /\ req[r].pc \in {"audit", "done"}

\* C3 witness: only the last validation, the empty message, fails
C3_Witness ==
    \E r \in Reqs :
        /\ req[r].pc = "done"
        /\ req[r].input.corpid = CorpA
        /\ req[r].input.corpsecret = SecretA
        /\ IsIntLiteral(req[r].input.agentid.s)
        /\ req[r].input.body.kind = "object"
        /\ req[r].input.body.message = PyStr(<<>>)
        /\ req[r].delivered.status = 400

\* C4: a request passing validation is answered 200 exactly when
\* send_text_message returned success=true, and otherwise 500 with a body
\* whose success is false.
C4_StatusFollowsSendResult ==
    \A r \in Reqs :
        (req[r].pc = "done" /\ ~FailsValidation(req[r].input)) =>
            /\ req[r].delivered.status = 200 <=> req[r].result.success
            /\ req[r].delivered.status = 200 => req[r].delivered.body = req[r].result
            /\ req[r].delivered.status # 200 =>
                  /\ req[r].delivered.status = 500
                  /\ ~req[r].delivered.body.success
                  /\ "success" \in req[r].delivered.body.keys

\* C4 witness: the upstream rejected the message with an errcode
C4_Witness ==
    \E r \in Reqs :
        /\ req[r].pc = "done"
        /\ ~FailsValidation(req[r].input)
        /\ req[r].result.errcode = PyInt(40013)
        /\ req[r].delivered.status = 500

\* C9: the response the caller receives is the one computed before the audit
\* write, also when the write fails.
C9_AuditIsolation ==
    \A r \in Reqs :
        req[r].pc = "done" =>
            /\ req[r].resp # NoResponse
            /\ req[r].delivered = req[r].resp

\* C9 witness: the database refused the write of a request answered 200
C9_Witness ==
    \E r \in Reqs :
        /\ req[r].pc = "done"
        /\ StorageFailed(r)
        /\ RowsOf(r) = {}
        /\ req[r].delivered.status = 200

\* C10, for the gateway: a handler issues at most one GET gettoken and one
\* POST message/send, the POST after the GET and with the token it returned.
C10_GatewayNoRetries ==
    \A r \in Reqs :
        /\ Cardinality(Issued(req[r].wire, "gettoken")) <= 1
        /\ Cardinality(Issued(req[r].wire, "message/send")) <= 1
        /\ \A i \in Issued(req[r].wire, "message/send") :
              /\ i = 2
              /\ req[r].wire[1].endpoint = "gettoken"
              /\ req[r].wire[i].access_token = req[r].access_token
              /\ req[r].access_token \in Tokens

\* the request passes every validation and its message is text
ValidRequest(input) == ~FailsValidation(input) /\ input.body.message.t = "str"

\* C16: a valid request whose body holds no touser is posted to the upstream
\* with touser "@all" and logged with touser "@all"; when the upstream
\* answers the POST with errcode 0 the caller gets 200 and success=true.
C16_RecipientDefault ==
    \A r \in Reqs :
        (req[r].pc = "done" /\ ValidRequest(req[r].input)
            /\ req[r].input.body.touser = Absent) =>
            /\ \A i \in Issued(req[r].wire, "message/send") :
                  /\ req[r].wire[i].payload.touser = AtAll
                  /\ "touser" \in req[r].wire[i].payload.keys
            /\ ~StorageFailed(r) => RowsOf(r) # {}
            /\ \A i \in RowsOf(r) : request_logs[i].touser = AtAll
            /\ (req[r].preply.kind = "json" /\ req[r].preply.errcode = PyInt(0)) =>
                  /\ req[r].delivered.status = 200
                  /\ req[r].delivered.body.success

\* C16 witness: {"message": "hi"} was sent, the upstream answered errcode 0
C16_Witness ==
    \E r \in Reqs :
        /\ req[r].pc = "done"
        /\ req[r].input.body = Body("object", Hi, Absent)
        /\ req[r].preply.kind = "json"
        /\ req[r].preply.errcode = PyInt(0)
        /\ req[r].wire[2].payload.touser = AtAll
        /\ \E i \in RowsOf(r) : request_logs[i].touser = AtAll
        /\ req[r].delivered.status = 200

\* the checks in the order claimed: what makes each fail, and the responses
\* that report it
Checks == <<"a", "b", "c-present", "c-integer", "d", "e">>

Fails(check, input) ==
    CASE check = "a"         -> ~Truthy(input.corpid)
      [] check = "b"         -> ~Truthy(input.corpsecret)
      [] check = "c-present" -> ~Truthy(input.agentid)
      [] check = "c-integer" -> ~IsIntLiteral(input.agentid.s)
      [] check = "d"         -> input.body.kind \in {"none", "badjson", "emptyobj", "emptyarray"}
      [] OTHER               -> input.body.kind # "object"
                                   \/ ~Truthy(Get(input.body.message, PyNone))

Reports(check, resp) ==
    CASE check = "a"         -> resp = Response(400, ErrorBody(PyStr(<<"missing header X-Corp-Id">>)))
      [] check = "b"         -> resp = Response(400, ErrorBody(PyStr(<<"missing header X-Corp-Secret">>)))
      [] check = "c-present" -> resp = Response(400, ErrorBody(PyStr(<<"missing header X-Agent-Id">>)))
      [] check = "c-integer" -> resp = Response(400, ErrorBody(PyStr(<<"X-Agent-Id must be numeric">>)))
      [] check = "d"         ->
            \/ resp = Response(400, ErrorBody(PyStr(<<"request body must not be empty">>)))
            \/ resp.body.error = FString("server error: ",
                    PyStr(<<"400 Bad Request: Failed to decode JSON object">>))
      [] OTHER               ->
            \/ resp = Response(400, ErrorBody(PyStr(<<"message content must not be empty">>)))
            \/ resp.body.error = FString("server error: ",
                    PyStr(<<"object has no attribute 'get'">>))

\* C19: the response reports the first check that fails, in the order
\* X-Corp-Id, X-Corp-Secret, X-Agent-Id present, X-Agent-Id an integer, body,
\* message, and none of the checks after it; validate_headers judges the
\* headers in the same order.
C19_ValidationOrder ==
    \A r \in Reqs :
        req[r].pc # "idle" =>
            /\ \A k \in DOMAIN Checks :
                  (Fails(Checks[k], req[r].input)
                      /\ \A j \in 1..(k - 1) : ~Fails(Checks[j], req[r].input)) =>
                      /\ Reports(Checks[k], req[r].resp)
                      /\ \A j \in DOMAIN Checks : j # k => ~Reports(Checks[j], req[r].resp)
                      /\ k <= 4 =>
                            /\ ~validate_headers(req[r].input).valid
                            /\ validate_headers(req[r].input).error = req[r].resp.body.error
            /\ validate_headers(req[r].input).valid
                  <=> \A k \in 1..4 : ~Fails(Checks[k], req[r].input)

\* C19 witness: X-Agent-Id is not a number and there is no body; the request
\* is rejected for X-Agent-Id
C19_Witness ==
    \E r \in Reqs :
        /\ req[r].pc = "done"
        /\ Truthy(req[r].input.corpid)
        /\ Truthy(req[r].input.corpsecret)
        /\ req[r].input.agentid = PyStr(<<"a", "b", "c">>)
        /\ req[r].input.body.kind = "none"
        /\ req[r].delivered = Response(400, ErrorBody(PyStr(<<"X-Agent-Id must be numeric">>)))

\* C19 witness for the first example: both X-Corp-Id and X-Corp-Secret are
\* missing, the request is rejected for X-Corp-Id
C19_BothMissing ==
    \E r \in Reqs :
        /\ req[r].pc = "done"
        /\ ~Truthy(req[r].input.corpid)
        /\ ~Truthy(req[r].input.corpsecret)
        /\ req[r].delivered = Response(400, ErrorBody(PyStr(<<"missing header X-Corp-Id">>)))

\* C25: in every row of request_logs, success is true exactly when
\* status_code is 200, and status_code is 200, 400 or 500.
C25_AuditOutcomeConsistency ==
    \A i \in DOMAIN request_logs :
        /\ request_logs[i].success <=> request_logs[i].status_code = 200
        /\ request_logs[i].status_code \in {200, 400, 500}

\* C25 witness: the upstream rejected the message; the row says 500 and not
\* successful
C25_Witness ==
    \E r \in Reqs : \E i \in RowsOf(r) :
        /\ req[r].preply.errcode = PyInt(40013)
        /\ request_logs[i].status_code = 500
        /\ ~request_logs[i].success

\* C21: the message column of every row is null or a text of at most 500
\* characters; a text is the first 500 characters of the message the request
\* submitted, and null stands for a request that failed a validation, so that
\* no non-empty message was read from it.
C21_ExcerptBound ==
    \A r \in Reqs : \A i \in RowsOf(r) :
        LET excerpt == request_logs[i].message
            submitted == req[r].input.body.message
        IN  /\ excerpt.t \in {"none", "str"}
            /\ excerpt.t = "str" =>
                  /\ Len(excerpt.s) <= 500
                  /\ ~FailsValidation(req[r].input)
                  /\ submitted.t = "str"
                  /\ Len(excerpt.s) = Min(Len(submitted.s), 500)
                  /\ \A k \in 1..Len(excerpt.s) : excerpt.s[k] = submitted.s[k]
            /\ excerpt.t = "none" => FailsValidation(req[r].input)

\* C21 witness: a message of 501 characters was submitted and sent; its row
\* holds 500
C21_Witness ==
    \E r \in Reqs : \E i \in RowsOf(r) :
        /\ Len(req[r].input.body.message.s) = 501
        /\ req[r].delivered.status = 200
        /\ Len(request_logs[i].message.s) = 500

---------------------------------------------------------------------------
(* Properties of concurrent handlers (SpecConcurrent) *)

\* C17: every handler that passed validation works on a client of its own,
\* made with its request's corp id and secret and an empty token cache; the
\* token in its POST message/send is the one returned to its own GET gettoken,
\* which it issued before with that corp id and secret; no handler reads or
\* fills another handler's cache.
C17_TokenCacheIsolation ==
    \A r \in Handlers :
        /\ req[r].pc = "token" =>
              req[r].cli = WechatWorkClient(req[r].input.corpid, req[r].input.corpsecret,
                                            PyInt(ParseInt(req[r].input.agentid.s)))
        /\ \A i \in Issued(req[r].wire, "gettoken") :
              /\ req[r].wire[i].corpid = req[r].input.corpid
              /\ req[r].wire[i].corpsecret = req[r].input.corpsecret
        /\ \A i \in Issued(req[r].wire, "message/send") :
              /\ \E j \in Issued(req[r].wire, "gettoken") : j < i
              /\ ~RefreshFailed(req[r].treply)
              /\ req[r].wire[i].access_token = req[r].treply.access_token
        /\ \A q \in Handlers \ {r} :
              (req[r].pc = "post" /\ req[q].pc = "token") =>
                  req[q].cli.access_token = PyNone

\* C17 witness: a handler of tenant A and one of tenant B, run at once, have
\* each posted with the token its own gettoken returned, and the two differ
C17_Witness ==
    \E r, q \in Handlers :
        /\ req[r].input.corpid = CorpA
        /\ req[q].input.corpid = CorpB
        /\ Issued(req[r].wire, "message/send") # {}
        /\ Issued(req[q].wire, "message/send") # {}
        /\ req[r].access_token # req[q].access_token
        /\ req[q].pc = "audit"
        /\ req[r].pc = "audit"

\* C18: when all the handlers have finished (the database having refused no
\* write), request_logs holds one row of each handler and no other, the ids
\* of the rows all different.
C18_ConcurrentAuditWrites ==
    (\A r \in Handlers : req[r].pc = "done" /\ ~StorageFailed(r)) =>
        /\ \A r \in Handlers : Cardinality(RowsOf(r)) = 1
        /\ Len(request_logs) = NumHandlers
        /\ \A i, j \in DOMAIN request_logs :
              i # j => request_logs[i].id # request_logs[j].id

\* what does hold of concurrent writes: ids are never shared, a handler never
\* has two rows, and a finished handler whose message was text or missing has
\* its row unless the database refused the write
C18_TextRequestsLogged ==
    /\ \A i, j \in DOMAIN request_logs :
          i # j => request_logs[i].id # request_logs[j].id
    /\ \A r \in Handlers :
          /\ Cardinality(RowsOf(r)) <= 1
          /\ (req[r].pc = "done" /\ ~StorageFailed(r)
                  /\ Get(req[r].input.body.message, PyNone).t \in {"none", "str"})
                => Cardinality(RowsOf(r)) = 1

---------------------------------------------------------------------------
(* Properties of the request_logs operations (SpecStore) *)

\* the clock reading a stored timestamp denotes
TimeOf(timestamp) == timestamp[1] * Day + timestamp[2]

\* the rows of tbl whose timestamp is not earlier than the instant `cut`
Since(tbl, cut) == { i \in DOMAIN tbl : TimeOf(tbl[i].timestamp) >= cut }

\* C12: clean_old_logs(days) called at `now` removes exactly the rows whose
\* timestamp is earlier than now - days, returns how many it removed, and
\* leaves the other rows in place and unchanged.
C12_Prune ==
    dbcall.op = "clean_old_logs" =>
        LET cut == dbcall.t - dbcall.days * Day
        IN  /\ dbcall.deleted_count = Len(dbcall.pre) - Cardinality(Since(dbcall.pre, cut))
            /\ Len(request_logs) = Cardinality(Since(dbcall.pre, cut))
            /\ \A i \in Since(dbcall.pre, cut) :
                  \E k \in DOMAIN request_logs : request_logs[k] = dbcall.pre[i]
            /\ \A k \in DOMAIN request_logs :
                  \E i \in Since(dbcall.pre, cut) : request_logs[k] = dbcall.pre[i]
            /\ \A k, m \in DOMAIN request_logs : k < m => request_logs[k].id < request_logs[m].id

\* C12 witness: a row from 40 days ago and one from 5 days ago, pruned with
\* days=30: 1 is returned and the 5-day-old row is kept
C12_Witness ==
    /\ dbcall.op = "clean_old_logs"
    /\ dbcall.days = 30
    /\ Len(dbcall.pre) = 2
    /\ TimeOf(dbcall.pre[1].timestamp) = dbcall.t - 40 * Day
    /\ TimeOf(dbcall.pre[2].timestamp) = dbcall.t - 5 * Day
    /\ dbcall.deleted_count = 1
    /\ request_logs = <<dbcall.pre[2]>>

\* C13, as claimed: two calls of get_statistics(days) with no insert or prune
\* between them return the same result, whenever they are made.
C13_StatisticsIdempotence ==
    (dbcall.op = "get_statistics" /\ dbcall.prev.valid) =>
        dbcall.stats = dbcall.prev.stats

\* C13, amended: two calls of get_statistics(days) with no insert or prune
\* between them return the same result when no row's timestamp lies between
\* the two cutoffs, first call's included and second call's excluded; so they
\* do when both calls read the same second.
C13_StatisticsSameWindow ==
    (dbcall.op = "get_statistics" /\ dbcall.prev.valid) =>
        LET cut1 == dbcall.prev.t - dbcall.days * Day
            cut2 == dbcall.t - dbcall.days * Day
        IN  (\A i \in DOMAIN request_logs :
                ~(cut1 <= TimeOf(request_logs[i].timestamp)
                    /\ TimeOf(request_logs[i].timestamp) < cut2))
            => dbcall.stats = dbcall.prev.stats

\* C13 witness: the second call is made later than the first, a row is in
\* both windows, and the two results agree
C13_Witness ==
    /\ dbcall.op = "get_statistics"
    /\ dbcall.prev.valid
    /\ dbcall.prev.t < dbcall.t
    /\ dbcall.stats.total_requests > 0
    /\ dbcall.stats = dbcall.prev.stats

\* C14: get_statistics(days) called at `now` returns as total the number of
\* rows with timestamp >= now - days, as success count the number of those
\* with success true, as failed count their difference, and as success rate 0
\* when the total is 0 and success count / total * 100 otherwise.
C14_StatisticsDefinition ==
    dbcall.op = "get_statistics" =>
        LET window == Since(dbcall.pre, dbcall.t - dbcall.days * Day)
            succeeded == { i \in window : dbcall.pre[i].success }
            st == dbcall.stats
        IN  /\ st.total_requests = Cardinality(window)
            /\ st.success_requests = Cardinality(succeeded)
            /\ st.failed_requests = st.total_requests - st.success_requests
            /\ st.success_rate.den > 0
            /\ st.total_requests = 0 => st.success_rate.num = 0
            /\ st.total_requests > 0 =>
                  st.success_rate.num * st.total_requests
                      = st.success_requests * 100 * st.success_rate.den

\* C14 witness: of two rows one is older than the window; the other, a failed
\* request, is counted
C14_Witness ==
    /\ dbcall.op = "get_statistics"
    /\ Len(dbcall.pre) = 2
    /\ dbcall.pre[2].success
    /\ dbcall.stats.total_requests = 1
    /\ dbcall.stats.success_requests = 0
    /\ dbcall.stats.failed_requests = 1

\* the rows a log query is to choose from
Matching(tbl, op, corp_id) ==
    { i \in DOMAIN tbl : op = "get_logs_by_corp_id" => tbl[i].corp_id = corp_id }

\* C15: get_recent_logs and get_logs_by_corp_id return rows of the table, each
\* once and unchanged, newest timestamp first; get_logs_by_corp_id only rows
\* of the tenant asked for; a row is left out only when the limit is reached,
\* and then no row left out is newer than a row returned; with limit >= 0 at
\* most limit rows are returned; the table is left as it was.
C15_LogQueries ==
    dbcall.op \in {"get_recent_logs", "get_logs_by_corp_id"} =>
        LET logs == dbcall.logs
            matching == Matching(dbcall.pre, dbcall.op, dbcall.corp_id)
            returned == { i \in matching : \E k \in DOMAIN logs : logs[k] = dbcall.pre[i] }
        IN  /\ \A k, m \in DOMAIN logs :
                  k < m => TimeOf(logs[k].timestamp) >= TimeOf(logs[m].timestamp)
            /\ \A k \in DOMAIN logs : \E i \in matching : logs[k] = dbcall.pre[i]
            /\ \A k, m \in DOMAIN logs : k # m => logs[k].id # logs[m].id
            /\ Len(logs) = IF dbcall.limit >= 0
                           THEN Min(dbcall.limit, Cardinality(matching))
                           ELSE Cardinality(matching)
            /\ \A i \in matching \ returned : \A k \in DOMAIN logs :
                  TimeOf(dbcall.pre[i].timestamp) <= TimeOf(logs[k].timestamp)
            /\ dbcall.limit >= 0 => Len(logs) <= dbcall.limit
            /\ request_logs = dbcall.pre

\* C15 witness: two rows of one tenant, the one inserted last stamped a second
\* before the other; with limit 1 the one inserted first is returned
C15_Witness ==
    /\ dbcall.op = "get_logs_by_corp_id"
    /\ dbcall.limit = 1
    /\ Len(dbcall.pre) = 2
    /\ dbcall.pre[1].corp_id = dbcall.corp_id
    /\ dbcall.pre[2].corp_id = dbcall.corp_id
    /\ TimeOf(dbcall.pre[2].timestamp) < TimeOf(dbcall.pre[1].timestamp)
    /\ dbcall.logs = <<dbcall.pre[1]>>

---------------------------------------------------------------------------
(* Properties of the operations under get_connection (SpecConnections) *)

\* the thread is inside an operation: between its connect and its return
Inside(c) == c.pc \notin {"idle", "returned"}

\* C22: a thread holds a connection exactly while it is inside an operation,
\* so none is open once the operation has returned or raised; an operation
\* that ends normally leaves the table as its connection wrote it, one that
\* raises leaves the table and the id sequence as they were and hands the
\* exception on; and nothing but a commit changes the table.
C22_ScopedConnections ==
    [][ /\ \A th \in Threads :
              /\ conn'[th].open <=> Inside(conn'[th])
              /\ (Inside(conn[th]) /\ conn'[th].pc = "returned") =>
                    IF conn'[th].raised
                    THEN /\ request_logs' = request_logs
                         /\ lastRowId' = lastRowId
                         /\ conn'[th].exc # NoExc
                    ELSE conn[th].pending.valid =>
                            /\ request_logs' = conn[th].pending.request_logs
                            /\ lastRowId' = conn[th].pending.lastRowId
        /\ (request_logs' # request_logs \/ lastRowId' # lastRowId) =>
              \E th \in Threads :
                  /\ conn[th].pc = "executed"
                  /\ conn'[th].pc = "returned"
                  /\ ~conn'[th].raised ]_vars

\* C22 witness: an insert has raised "database is locked" and closed its
\* connection while another thread, inside its own operation, holds one; the
\* table holds a committed row that the failed insert did not touch
C22_Witness ==
    \E th \in Threads : \E o \in Threads \ {th} :
        /\ conn[th].op = "insert_request_log"
        /\ conn[th].pc = "returned"
        /\ conn[th].raised
        /\ conn[th].exc = DatabaseLocked
        /\ ~conn[th].open
        /\ conn[o].open
        /\ Len(request_logs) = 1

\* C23: the figures get_statistics returns are those of one state of the
\* table: 0 <= success_requests <= total_requests, failed_requests >= 0 and
\* success_rate <= 100, whatever inserts and prunes run beside it.
C23_StatisticsConsistency ==
    \A th \in Threads :
        (conn[th].op = "get_statistics" /\ conn[th].pc = "returned") =>
            LET s == conn[th].stats
            IN  /\ 0 <= s.success_requests
                /\ s.success_requests <= s.total_requests
                /\ s.failed_requests >= 0
                /\ s.success_rate.num <= 100 * s.success_rate.den

====
